---- MODULE Spec2Model ----
(***************************************************************************)
(* Model of scripts/compare.py (pleiades_wikidata): main() loads the       *)
(* Pleiades->Wikidata index, loads the Wikidata rows, classifies every     *)
(* link and writes four report files.                                      *)
(*                                                                         *)
(* URIs are TLA+ strings; startswith and the f-string prefixing of the     *)
(* bare Pleiades id are computed on the strings.  Python dicts are         *)
(* functions whose DOMAIN is the key set; Python sets are sets.  A row of   *)
(* the data file is a dict whose column order matters to the report, so    *)
(* it is a sequence of <<column, value>> pairs with distinct columns.  A   *)
(* CSV file is the set of its data rows: the code iterates a set, so the   *)
(* order of the rows, and which rows precede a failing one, is any.  The   *)
(* index object's key order is likewise not kept: where it decides what    *)
(* was built before an exception, every order's outcome is allowed.        *)
(***************************************************************************)
EXTENDS Integers, Sequences, FiniteSets, TLC

VARIABLES pc, error, index, p2w, content, i,
          wikidata_dict, wikidata_dict_index, w2p,
          bidirectional, cited_puris, multicited_puris,
          only_pleiades, only_wikidata, multiple_p4w, multicited,
          files

vars == <<pc, error, index, p2w, content, i,
          wikidata_dict, wikidata_dict_index, w2p,
          bidirectional, cited_puris, multicited_puris,
          only_pleiades, only_wikidata, multiple_p4w, multicited,
          files>>

(***************************************************************************)
(* Bounds of the model.                                                    *)
(***************************************************************************)
\* longest list of item rows get_csv returns
MaxRows == 3
\* longest alignments list of an index record (loader specification)
MaxAlign == 2

(***************************************************************************)
(* Program constants and the input domains.                                *)
(***************************************************************************)
PlaceBase == "https://pleiades.stoa.org/places/"
ItemBase == "https://www.wikidata.org/wiki/"

\* bare Pleiades ids as they stand in the rows' pleiades column
PlaceIds == {"1", "2"}
\* item URIs as they stand in the rows' item column
ItemURIs == {ItemBase \o "Q1", ItemBase \o "Q2"}
\* an index key that is no place URI, and an alignment that is no item URI
OtherKey == "https://pleiades.stoa.org/names/1"
OtherAlign == "https://www.geonames.org/1"

IndexKeys == {PlaceBase \o id : id \in PlaceIds} \cup {OtherKey}
AlignURIs == ItemURIs \cup {OtherAlign}

EmptyMap == [x \in {} |-> {}]

SeqsUpTo(S, n) == UNION {[1..k -> S] : k \in 0..n}

\* an index record without the alignments field
NoAlignRec == [title |-> "x"]

\* JSON objects the index file may hold: any subset of the keys, each record
\* with an alignments list or without the field
IndexesOver(Recs) == UNION {[K -> Recs] : K \in SUBSET IndexKeys}

\* the loader's inputs: alignments lists of every order and length
AllIndexes ==
    IndexesOver({NoAlignRec}
                \cup {[alignments |-> s] : s \in SeqsUpTo(AlignURIs, MaxAlign)})

\* the whole run's inputs: place records without the field, with no
\* alignment, or aligned to one item; the record of the key that is no place
\* URI is without the field or aligned to an item
RunIndexes ==
    {idx \in IndexesOver({NoAlignRec, [alignments |-> <<>>]}
                         \cup {[alignments |-> <<u>>] : u \in ItemURIs}) :
        OtherKey \in DOMAIN idx =>
            idx[OtherKey] \in {NoAlignRec,
                               [alignments |-> <<ItemBase \o "Q1">>]}}

\* further columns a row may carry after item and pleiades: one that is
\* not a column of the report, and one that is renamed (plural stripped) to
\* a column of the report, the one the item column is renamed to
ExtraColumns == {<<"foo", "bar">>, <<"wikidata_uris", "Y">>}

\* rows as get_csv yields them: dicts keyed by column name, in column order;
\* a row may lack the item or the pleiades key, or carry a further column
RowDomain ==
    {<<(<<"item", w>>), (<<"pleiades", p>>)>> : w \in ItemURIs, p \in PlaceIds}
    \cup {<<(<<"item", ItemBase \o "Q1">>)>>, <<(<<"pleiades", "1">>)>>}
    \cup {<<(<<"item", ItemBase \o "Q1">>), (<<"pleiades", "1">>), c>> :
              c \in ExtraColumns}

Contents == SeqsUpTo(RowDomain, MaxRows)

(***************************************************************************)
(* Helpers: str.startswith, dict assignment.                               *)
(***************************************************************************)
startswith(s, prefix) ==
    Len(s) >= Len(prefix) /\ SubSeq(s, 1, Len(prefix)) = prefix

endswith(s, suffix) ==
    Len(s) >= Len(suffix)
    /\ SubSeq(s, Len(s) - Len(suffix) + 1, Len(s)) = suffix

\* d[k] = v
Put(d, k, v) == [x \in DOMAIN d \cup {k} |-> IF x = k THEN v ELSE d[x]]

\* row.keys()
Keys(row) == {row[j][1] : j \in 1..Len(row)}

\* row[k], for a key the row has
Get(row, k) == row[CHOOSE j \in 1..Len(row) : row[j][1] = k][2]

(***************************************************************************)
(* Reference index loader (lines 96-108).                                  *)
(***************************************************************************)
\* puris = [k for k in index.keys() if k.startswith(place base)]
Puris(idx) == {k \in DOMAIN idx : startswith(k, PlaceBase)}

\* index[puri]["alignments"] raises KeyError for a record without the field
LacksAlignments(idx) ==
    \E k \in Puris(idx) : "alignments" \notin DOMAIN idx[k]

IsItemURI(v) == startswith(v, ItemBase)

\* values = [v for v in index[puri]["alignments"] if v.startswith(item base)]
Values(rec) == SelectSeq(rec.alignments, IsItemURI)

LastValue(values) == values[Len(values)]

\* values[0]
FirstValue(values) == values[1]

\* the puris whose record has no alignments field
LackingPuris(idx) == {k \in Puris(idx) : "alignments" \notin DOMAIN idx[k]}

\* the p2w dict after the loop has run over the puris of S
BuildP2WOver(idx, S) ==
    [puri \in {k \in S : Values(idx[k]) # <<>>}
        |-> FirstValue(Values(idx[puri]))]

\* the p2w dict after the loop over all puris
BuildP2W(idx) == BuildP2WOver(idx, Puris(idx))

(***************************************************************************)
(* Item rows: the body of the row loop (lines 123-142).                    *)
(***************************************************************************)
\* puri = f"https://pleiades.stoa.org/places/{row['pleiades']}"
RowPuri(row) == PlaceBase \o Get(row, "pleiades")

\* wikidata_dict[wuri] = row
RowDict(wd, row) == Put(wd, Get(row, "item"), row)

\* if puri in cited_puris: multicited_puris.add(puri)
RowMulticitedPuris(cited, multi, row) ==
    IF RowPuri(row) \in cited THEN multi \cup {RowPuri(row)} ELSE multi

\* else: cited_puris.add(puri)
RowCitedPuris(cited, row) ==
    IF RowPuri(row) \in cited THEN cited ELSE cited \cup {RowPuri(row)}

\* w2p.setdefault(wuri, set()).add(puri), written with try/except KeyError
RowW2P(w, row) ==
    Put(w, Get(row, "item"),
        (IF Get(row, "item") \in DOMAIN w THEN w[Get(row, "item")] ELSE {}) \cup {RowPuri(row)})

RowDictIndex_BareId(wdi, row) ==
    Put(wdi, Get(row, "pleiades"), Get(row, "item"))

\* wikidata_dict_index[puri] = wuri
RowDictIndex(wdi, row) == Put(wdi, RowPuri(row), Get(row, "item"))

RowBidirectional_SameItem(bidir, m, row) ==
    IF RowPuri(row) \in DOMAIN m /\ m[RowPuri(row)] = Get(row, "item")
    THEN bidir \cup {RowPuri(row)}
    ELSE bidir

\* try: p2w[puri] / except KeyError: pass / else: bidirectional.add(puri)
RowBidirectional(bidir, m, row) ==
    IF RowPuri(row) \in DOMAIN m THEN bidir \cup {RowPuri(row)} ELSE bidir

(***************************************************************************)
(* Reconciliation (lines 146-166).                                         *)
(***************************************************************************)
OnlyPleiades_AllPuris(m, bidir) == Puris(index) \ bidir

\* only_pleiades = set(p2w.keys()) - bidirectional
OnlyPleiades(m, bidir) == DOMAIN m \ bidir

OnlyWikidata_LastRows(w, bidir) ==
    {RowPuri(wikidata_dict[wuri]) : wuri \in DOMAIN wikidata_dict} \ bidir

\* only_wikidata = {v for subset in w2p.values() for v in subset} - bidirectional
OnlyWikidata(w, bidir) == UNION {w[wuri] : wuri \in DOMAIN w} \ bidir

MultipleP4W_AtLeastOne(w) == {wuri \in DOMAIN w : Cardinality(w[wuri]) >= 1}

\* multiple_p4w = {wuri for wuri, puris in w2p.items() if len(puris) > 1}
MultipleP4W(w) == {wuri \in DOMAIN w : Cardinality(w[wuri]) > 1}

Multicited_LastSeen(multi, w) ==
    [this_puri \in multi |-> {wikidata_dict_index[this_puri]}]

\* multicited[this_puri] = {wuri for wuri, puris in w2p.items() if this_puri in puris}
Multicited(multi, w) ==
    [this_puri \in multi |-> {wuri \in DOMAIN w : this_puri \in w[wuri]}]

(***************************************************************************)
(* Report emission (lines 171-242).                                        *)
(***************************************************************************)
P2WFile == "pleiades_not_in_wikidata.csv"
W2PFile == "wikidata_not_in_pleiades.csv"
MultipleP4WFile == "wikidata_that_cite_multiple_pleiades.csv"
MulticitedFile == "pleiades_cited_by_multiple_wikidata.json"

\* writer.writerow({"pleiades_uri": puri, "wikidata_uri": p2w[puri]})
P2WRows(only, m) ==
    {[pleiades_uri |-> puri, wikidata_uri |-> m[puri]] : puri \in only}

\* the output column of input column k (lines 214-227)
RenameKey(k) ==
    IF k = "item" THEN "wikidata_uri"
    ELSE IF k = "pleiades" THEN "pleiades_uri"
    ELSE IF k = "itemLabel" THEN "wikidata_label"
    ELSE IF k = "itemDescription" THEN "wikidata_description"
    ELSE IF k = "coordinates" THEN "wikidata_coordinates"
    ELSE IF endswith(k, "s") THEN SubSeq(k, 1, Len(k) - 1)
    ELSE k

\* the loop over row.items(), in the row's column order, assigning into d:
\* a later column overwrites an earlier one of the same output name
RECURSIVE EmitCols(_, _, _)
EmitCols(cols, puri, d) ==
    IF cols = <<>> THEN d
    ELSE EmitCols(Tail(cols), puri,
                  Put(d, RenameKey(Head(cols)[1]),
                      IF Head(cols)[1] = "pleiades" THEN puri ELSE Head(cols)[2]))

\* the dict d built from a row for place puri (lines 210-227)
EmitRow(row, puri) == EmitCols(row, puri, EmptyMap)

\* the fieldnames of the DictWriter (lines 186-205)
Fieldnames ==
    {"pleiades_uri", "wikidata_uri", "wikidata_label", "wikidata_description",
     "wikidata_coordinates", "chronique_id", "dare_id", "geonames_id",
     "gettytgn_id", "idaigaz_id", "loc_id", "manto_id", "nomisma_id",
     "topostext_id", "trismegistos_id", "viaf_id", "vici_id", "wikipedia_en"}

\* wikidata_dict[wikidata_dict_index[puri]] is defined (line 211)
W2PLookupDefined(puri, wdi, wd) ==
    puri \in DOMAIN wdi /\ wdi[puri] \in DOMAIN wd

\* writer.writerow(d) accepts d: DictWriter raises ValueError for a key
\* that is not among its fieldnames (line 228)
W2PRowAccepted(puri, wdi, wd) ==
    DOMAIN EmitRow(wd[wdi[puri]], puri) \subseteq Fieldnames

\* the places at which the loop of lines 208-228 raises
W2PFailing(only, wdi, wd) ==
    {puri \in only :
        \/ ~W2PLookupDefined(puri, wdi, wd)
        \/ ~W2PRowAccepted(puri, wdi, wd)}

\* the rows written for the places of only
W2PRows(only, wdi, wd) == {EmitRow(wd[wdi[puri]], puri) : puri \in only}

\* writer.writerow({"wikidata_uri": wuri})
MultipleP4WRows(multiple) == {[wikidata_uri |-> wuri] : wuri \in multiple}

(***************************************************************************)
(* The run: one action per step of main().                                 *)
(***************************************************************************)
Init ==
    /\ pc = "start"
    /\ error = "none"
    /\ index = EmptyMap
    /\ p2w = EmptyMap
    /\ content = <<>>
    /\ i = 1
    /\ wikidata_dict = EmptyMap
    /\ wikidata_dict_index = EmptyMap
    /\ w2p = EmptyMap
    /\ bidirectional = {}
    /\ cited_puris = {}
    /\ multicited_puris = {}
    /\ only_pleiades = {}
    /\ only_wikidata = {}
    /\ multiple_p4w = {}
    /\ multicited = EmptyMap
    /\ files = EmptyMap

loaderVars == <<p2w, content, i>>
rowVars == <<wikidata_dict, wikidata_dict_index, w2p,
             bidirectional, cited_puris, multicited_puris>>
setVars == <<only_pleiades, only_wikidata, multiple_p4w, multicited>>

\* json.load(f) returns the parsed object (line 93)
LoadIndexFrom(Indexes) ==
    /\ pc = "start" /\ error = "none"
    /\ \E idx \in Indexes : index' = idx
    /\ pc' = "index_loaded"
    /\ UNCHANGED <<error, loaderVars, rowVars, setVars, files>>

LoadIndex == LoadIndexFrom(RunIndexes)

\* json.load(f) raises on a file that is not valid JSON (line 93)
LoadIndexMalformed ==
    /\ pc = "start" /\ error = "none"
    /\ error' = "JSONDecodeError"
    /\ UNCHANGED <<pc, index, loaderVars, rowVars, setVars, files>>

\* the loop over puris (lines 96-108)
LoadP2W ==
    /\ pc = "index_loaded" /\ error = "none"
    /\ IF LacksAlignments(index)
       THEN \* KeyError at line 104; the puris iterated before it, in the
            \* object's key order, have been entered
            /\ \E S \in SUBSET (Puris(index) \ LackingPuris(index)) :
                  p2w' = BuildP2WOver(index, S)
            /\ error' = "KeyError"
            /\ UNCHANGED pc
       ELSE /\ p2w' = BuildP2W(index)
            /\ pc' = "p2w_built"
            /\ UNCHANGED error
    /\ UNCHANGED <<index, content, i, rowVars, setVars, files>>

\* get_csv returns the rows of the data file (line 112)
LoadRows ==
    /\ pc = "p2w_built" /\ error = "none"
    /\ \E c \in Contents : content' = c
    /\ i' = 1
    /\ pc' = "rows"
    /\ UNCHANGED <<error, index, p2w, rowVars, setVars, files>>

\* one iteration of the row loop on a row that has both keys (lines 124-142)
ProcessRowOk ==
    /\ pc = "rows" /\ error = "none" /\ i <= Len(content)
    /\ {"item", "pleiades"} \subseteq Keys(content[i])
    /\ LET row == content[i] IN
        /\ wikidata_dict' = RowDict(wikidata_dict, row)
        /\ multicited_puris' = RowMulticitedPuris(cited_puris, multicited_puris, row)
        /\ cited_puris' = RowCitedPuris(cited_puris, row)
        /\ w2p' = RowW2P(w2p, row)
        /\ wikidata_dict_index' = RowDictIndex(wikidata_dict_index, row)
        /\ bidirectional' = RowBidirectional(bidirectional, p2w, row)
    /\ i' = i + 1
    /\ UNCHANGED <<pc, error, index, p2w, content, setVars, files>>

ProcessRowMissingKey_Skip ==
    /\ pc = "rows" /\ error = "none" /\ i <= Len(content)
    /\ ~({"item", "pleiades"} \subseteq Keys(content[i]))
    /\ i' = i + 1
    /\ UNCHANGED <<pc, error, index, p2w, content, rowVars, setVars, files>>

\* row["item"] (line 124) or row['pleiades'] (line 126) raises KeyError; the
\* assignment of line 125 stands between the two
ProcessRowMissingKey ==
    /\ pc = "rows" /\ error = "none" /\ i <= Len(content)
    /\ ~({"item", "pleiades"} \subseteq Keys(content[i]))
    /\ error' = "KeyError"
    /\ wikidata_dict' =
         IF "item" \in Keys(content[i])
         THEN RowDict(wikidata_dict, content[i])
         ELSE wikidata_dict
    /\ UNCHANGED <<pc, index, p2w, content, i, wikidata_dict_index, w2p,
                   bidirectional, cited_puris, multicited_puris, setVars, files>>

\* the sets computed after the loop (lines 146-166)
Reconcile ==
    /\ pc = "rows" /\ error = "none" /\ i > Len(content)
    /\ only_pleiades' = OnlyPleiades(p2w, bidirectional)
    /\ only_wikidata' = OnlyWikidata(w2p, bidirectional)
    /\ multiple_p4w' = MultipleP4W(w2p)
    /\ multicited' = Multicited(multicited_puris, w2p)
    /\ pc' = "reconciled"
    /\ UNCHANGED <<error, index, loaderVars, rowVars, files>>

\* pleiades_not_in_wikidata.csv (lines 174-179); p2w[puri] raises KeyError
\* after the file has been opened
WriteP2W ==
    /\ pc = "reconciled" /\ error = "none"
    /\ IF only_pleiades \subseteq DOMAIN p2w
       THEN /\ files' = Put(files, P2WFile, P2WRows(only_pleiades, p2w))
            /\ pc' = "wrote_p2w"
            /\ UNCHANGED error
       ELSE /\ \E S \in SUBSET (only_pleiades \cap DOMAIN p2w) :
                  files' = Put(files, P2WFile, P2WRows(S, p2w))
            /\ error' = "KeyError"
            /\ UNCHANGED pc
    /\ UNCHANGED <<index, loaderVars, rowVars, setVars>>

\* wikidata_not_in_pleiades.csv (lines 182-228): the loop over the set
\* only_wikidata stops at the first place whose lookup raises KeyError or
\* whose row the writer refuses with ValueError; the rows of the places
\* iterated before it have been written
WriteW2P ==
    /\ pc = "wrote_p2w" /\ error = "none"
    /\ LET failing ==
              W2PFailing(only_wikidata, wikidata_dict_index, wikidata_dict)
       IN IF failing = {}
          THEN /\ files' = Put(files, W2PFile,
                               W2PRows(only_wikidata, wikidata_dict_index,
                                       wikidata_dict))
               /\ pc' = "wrote_w2p"
               /\ UNCHANGED error
          ELSE /\ \E bad \in failing, S \in SUBSET (only_wikidata \ failing) :
                     /\ files' = Put(files, W2PFile,
                                     W2PRows(S, wikidata_dict_index,
                                             wikidata_dict))
                     /\ error' =
                          IF W2PLookupDefined(bad, wikidata_dict_index,
                                              wikidata_dict)
                          THEN "ValueError"
                          ELSE "KeyError"
               /\ UNCHANGED pc
    /\ UNCHANGED <<index, loaderVars, rowVars, setVars>>

\* wikidata_that_cite_multiple_pleiades.csv (lines 231-236)
WriteMultipleP4W ==
    /\ pc = "wrote_w2p" /\ error = "none"
    /\ files' = Put(files, MultipleP4WFile, MultipleP4WRows(multiple_p4w))
    /\ pc' = "wrote_multiple_p4w"
    /\ UNCHANGED <<error, index, loaderVars, rowVars, setVars>>

\* pleiades_cited_by_multiple_wikidata.json (lines 239-241)
WriteMulticited ==
    /\ pc = "wrote_multiple_p4w" /\ error = "none"
    /\ files' = Put(files, MulticitedFile, multicited)
    /\ pc' = "done"
    /\ UNCHANGED <<error, index, loaderVars, rowVars, setVars>>

Next ==
    \/ LoadIndex
    \/ LoadIndexMalformed
    \/ LoadP2W
    \/ LoadRows
    \/ ProcessRowOk
    \/ ProcessRowMissingKey
    \/ Reconcile
    \/ WriteP2W
    \/ WriteW2P
    \/ WriteMultipleP4W
    \/ WriteMulticited

Spec == Init /\ [][Next]_vars

\* the reference index loader alone, on every alignments list
LoadAnyIndex == LoadIndexFrom(AllIndexes)

NextLoader ==
    \/ LoadAnyIndex
    \/ LoadIndexMalformed
    \/ LoadP2W

SpecLoader == Init /\ [][NextLoader]_vars

(***************************************************************************)
(* Properties.  The reference sets below are computed from the inputs      *)
(* (index, content) alone, without the program's accumulators.             *)
(***************************************************************************)
AfterLoop ==
    pc \in {"reconciled", "wrote_p2w", "wrote_w2p", "wrote_multiple_p4w", "done"}

HasBothKeys(row) == {"item", "pleiades"} \subseteq Keys(row)

\* the rows that cite place URI p
CitingRows(p) ==
    {j \in 1..Len(content) : PlaceBase \o Get(content[j], "pleiades") = p}

\* the distinct items with at least one row citing p
CitingItems(p) == {Get(content[j], "item") : j \in CitingRows(p)}

\* every place URI cited by some row
CitedPlaces == {PlaceBase \o Get(content[j], "pleiades") : j \in 1..Len(content)}

\* the distinct place URIs cited by the rows of item w
PlacesOf(w) ==
    {PlaceBase \o Get(content[j], "pleiades") :
        j \in {k \in 1..Len(content) : Get(content[k], "item") = w}}

RowsOf(w) == {k \in 1..Len(content) : Get(content[k], "item") = w}

MaxOf(S) == CHOOSE j \in S : \A k \in S : k <= j

\* the item of the last row, in input order, that cites p
LastCiter(p) == Get(content[MaxOf(CitingRows(p))], "item")

\* C1: after the row loop every multicited entry maps its place to at least
\* two distinct item URIs (a place whose rows all carry one item is no key).
C1_MulticitedHasTwoItems ==
    AfterLoop =>
        \A p \in DOMAIN multicited : Cardinality(multicited[p]) >= 2

\* C2: bidirectional is exactly the set of p2w keys cited by at least one
\* row, whatever item cites them; so it is a subset of the p2w keys and of
\* the cited places.
C2_BidirectionalExact ==
    AfterLoop =>
        /\ bidirectional = {p \in DOMAIN p2w : CitingRows(p) # {}}
        /\ bidirectional \subseteq DOMAIN p2w
        /\ bidirectional \subseteq CitedPlaces

\* a bidirectional place none of whose citing items is its aligned item
C2_Witness ==
    /\ AfterLoop
    /\ \E p \in bidirectional : p2w[p] \notin CitingItems(p)

\* C3: only_pleiades and bidirectional are disjoint, their union is the key
\* set of p2w, and an aligned place without a citing row is in only_pleiades.
C3_OnlyPleiadesPartition ==
    AfterLoop =>
        /\ only_pleiades \cap bidirectional = {}
        /\ only_pleiades \cup bidirectional = DOMAIN p2w
        /\ \A p \in DOMAIN p2w : CitingRows(p) = {} => p \in only_pleiades

\* both parts are inhabited, and the index holds a place without item alignment
C3_Witness ==
    /\ AfterLoop
    /\ only_pleiades # {}
    /\ bidirectional # {}
    /\ \E p \in only_pleiades : CitingRows(p) = {}

\* C4: only_wikidata and bidirectional are disjoint, their union is the set
\* of all cited place URIs, and a cited place that is no key of p2w (the
\* ReferenceIndex) is in only_wikidata.
C4_OnlyWikidataPartition ==
    AfterLoop =>
        /\ only_wikidata \cap bidirectional = {}
        /\ only_wikidata \cup bidirectional = CitedPlaces
        /\ \A p \in CitedPlaces : p \notin DOMAIN p2w => p \in only_wikidata

\* a cited place that the index holds without an item alignment, so that it
\* is no key of p2w, beside a bidirectional one
C4_Witness ==
    /\ AfterLoop
    /\ bidirectional # {}
    /\ \E p \in only_wikidata : p \in DOMAIN index /\ p \notin DOMAIN p2w

\* C5: multiple_p4w is exactly the set of items whose rows cite more than
\* one distinct place; an item whose rows all cite one place is not in it.
C5_MultiplePlacesExact ==
    AfterLoop =>
        /\ multiple_p4w = {w \in ItemURIs : Cardinality(PlacesOf(w)) > 1}
        /\ \A w \in ItemURIs :
              Cardinality(PlacesOf(w)) = 1 => w \notin multiple_p4w

\* one item with rows for two places beside an item with one place
C5_Witness ==
    /\ AfterLoop
    /\ \E w \in multiple_p4w : Cardinality(RowsOf(w)) = 2
    /\ \E w \in ItemURIs :
          /\ Cardinality(PlacesOf(w)) = 1
          /\ w \notin multiple_p4w

\* C6: the keys of multicited are places that occur in more than one row,
\* and each value is exactly the set of distinct items citing that place.
C6_MulticitedValuesExact ==
    AfterLoop =>
        \A p \in DOMAIN multicited :
            /\ Cardinality(CitingRows(p)) > 1
            /\ multicited[p] = CitingItems(p)

\* a place cited by two different items
C6_Witness ==
    /\ AfterLoop
    /\ \E p \in DOMAIN multicited : Cardinality(multicited[p]) = 2

\* the positions of the item URIs in an alignments list
ItemPositions(a) == {j \in 1..Len(a) : startswith(a[j], ItemBase)}

MinOf(S) == CHOOSE j \in S : \A k \in S : j <= k

\* C7: the keys of p2w are exactly the index keys with the place prefix
\* whose alignments hold an item URI, and each value is the first item URI
\* of the list in its given order.
C7_LoaderFirstMatch ==
    pc = "p2w_built" =>
        /\ DOMAIN p2w =
             {k \in DOMAIN index :
                 /\ startswith(k, PlaceBase)
                 /\ ItemPositions(index[k].alignments) # {}}
        /\ \A k \in DOMAIN p2w :
              p2w[k] = index[k].alignments[
                          MinOf(ItemPositions(index[k].alignments))]

\* a place with two different item URIs, a place with none, a foreign key
C7_Witness ==
    /\ pc = "p2w_built"
    /\ OtherKey \in DOMAIN index
    /\ Puris(index) \ DOMAIN p2w # {}
    /\ \E k \in DOMAIN p2w :
          /\ Len(index[k].alignments) = 2
          /\ index[k].alignments[1] # index[k].alignments[2]
          /\ ItemPositions(index[k].alignments) = {1, 2}

\* C8: a failed index load (malformed JSON, a place record without
\* alignments) or a row without item or pleiades stops the run with an
\* error before any output file exists; no file is written before both
\* loaders have completed, and the loop never steps past a malformed row.
C8_AbortBeforeOutput ==
    /\ error = "JSONDecodeError" => pc = "start" /\ files = EmptyMap
    /\ (pc # "start" /\ LacksAlignments(index)) =>
           pc = "index_loaded" /\ files = EmptyMap
    /\ pc = "rows" \/ AfterLoop =>
           \A j \in 1..(i - 1) : HasBothKeys(content[j])
    /\ AfterLoop => i = Len(content) + 1
    /\ DOMAIN files # {} => AfterLoop /\ ~LacksAlignments(index)
    /\ (pc = "rows" /\ i <= Len(content) /\ ~HasBothKeys(content[i])) =>
           files = EmptyMap
    /\ (error # "none" /\ ~AfterLoop) => files = EmptyMap

\* the run has stopped on a malformed row after processing an earlier one
C8_Witness ==
    /\ pc = "rows"
    /\ error = "KeyError"
    /\ i > 1
    /\ ~HasBothKeys(content[i])
    /\ files = EmptyMap

\* C9: wikidata_dict_index maps every cited place to the item of the last
\* row citing it, and wikidata_not_in_pleiades.csv holds exactly one row per
\* place of only_wikidata, with that place and that last-seen item.
C9_LastSeenItem ==
    AfterLoop =>
        /\ DOMAIN wikidata_dict_index = CitedPlaces
        /\ \A p \in CitedPlaces :
              /\ wikidata_dict_index[p] = LastCiter(p)
              /\ LastCiter(p) \in CitingItems(p)
        /\ W2PFile \in DOMAIN files =>
              /\ {<<d.pleiades_uri, d.wikidata_uri>> : d \in files[W2PFile]}
                   = {<<p, LastCiter(p)>> : p \in only_wikidata}
              /\ Cardinality(files[W2PFile]) = Cardinality(only_wikidata)

\* C10: once both loaders have succeeded every lookup of the emit stage is
\* defined, so no write fails with a missing key.
C10_EmitLookupsDefined ==
    AfterLoop =>
        /\ error # "KeyError"
        /\ \A p \in only_pleiades : p \in DOMAIN p2w
        /\ \A p \in only_wikidata :
              /\ p \in DOMAIN wikidata_dict_index
              /\ wikidata_dict_index[p] \in DOMAIN wikidata_dict

\* all four files written, both one-sided reports non-empty
C10_Witness ==
    /\ pc = "done"
    /\ DOMAIN files = {P2WFile, W2PFile, MultipleP4WFile, MulticitedFile}
    /\ files[P2WFile] # {}
    /\ files[W2PFile] # {}

====
